---------------------------- MODULE Spec2Model ----------------------------
(***************************************************************************)
(* The flow exporter of mitmproxy/addons/export.py: the message clean-up,  *)
(* the curl / httpie / raw formatters, the format table and the three      *)
(* commands export.formats, export.file and export.clip.                   *)
(*                                                                         *)
(* Text and bytes are sequences of atoms.  An atom is a string standing    *)
(* for one or more characters; the concatenation of the atoms is the       *)
(* Python string.  The single quote "'", the backslash "\\" and the        *)
(* byte 0xFF (written "0xFF", the one byte of the model that no UTF-8      *)
(* text contains) are always atoms of their own, so that quoting and       *)
(* decoding are decided atom by atom.  Header names, methods and the URL   *)
(* are single atoms; header values and bodies are sequences of             *)
(* one-character atoms.                                                    *)
(***************************************************************************)
EXTENDS Naturals, Sequences, FiniteSets

VARIABLES
    flow,       \* the flow object handed to every command: its request and response
    flow0,      \* the flow as it was captured (never assigned after Init)
    pc,         \* position of the command in progress, "idle" between commands
    call,       \* the command in progress or last finished: [op, fmt, path]
    ncalls,     \* how many commands were started
    v,          \* the formatter's result held by the command: [kind, data]
    sanitized,  \* the copies the formatter's run made: [request, response]
    fp,         \* the destination file's handle: "closed" or "open"
    opens,      \* how many file handles the current command acquired
    sinkCalls,  \* how often the current command called open() or pyperclip.copy()
    disk,       \* the files on disk, by path: [exists, data]
    disk0,      \* the disk as the current command found it
    room,       \* how many bytes the file system takes for one file
    clipboard,  \* the system clipboard: [set, text]
    clipboard0, \* the clipboard as the current command found it
    pending,    \* exception in flight inside the with-block of export.file
    sinkFailed, \* whether the sink failed during the current command
    logged,     \* what the current command passed to ctx.log.error
    outcome,    \* how the last command ended: [kind, exc, msg]
    ret         \* the value the last command returned (export.formats' list)

vars == <<flow, flow0, pc, call, ncalls, v, sanitized, fp, opens, sinkCalls, disk, disk0,
          room, clipboard, clipboard0, pending, sinkFailed, logged, outcome, ret>>

(***************************************************************************)
(* Bounds of the model.                                                    *)
(***************************************************************************)
MaxHeaders == 2
MaxBody == 1
MaxCalls == 2

(***************************************************************************)
(* Sequences.                                                              *)
(***************************************************************************)
SeqsUpTo(S, n) == UNION {[1..k -> S] : k \in 0..n}

RECURSIVE Flatten(_)
Flatten(ss) == IF ss = <<>> THEN <<>> ELSE Head(ss) \o Flatten(Tail(ss))

RECURSIVE CountAtom(_, _)
CountAtom(s, a) ==
    IF s = <<>> THEN 0
    ELSE (IF Head(s) = a THEN 1 ELSE 0) + CountAtom(Tail(s), a)

(***************************************************************************)
(* The message model: requests, responses and their header collections.    *)
(***************************************************************************)
NoMessage == [absent |-> TRUE]

QUOTE == "'"
BACKSLASH == "\\"
BYTE_FF == "0xFF"
CRLF == "\r\n"

BodyBytes == {QUOTE, BYTE_FF}
Bodies == SeqsUpTo(BodyBytes, MaxBody)

RequestHeaderEntries ==
    { <<"Content-Length", <<"0">>>>,
      <<"content-length", <<"5">>>>,
      <<":authority", <<"h">>>>,
      <<"Accept-Encoding", <<"g">>>>,
      <<"accept-encoding", <<QUOTE>>>> }

ResponseHeaderEntries == { <<":authority", <<"h">>>> }

Methods == {"GET", "POST"}

Requests ==
    [method : Methods, url : {"http://h/"},
     headers : SeqsUpTo(RequestHeaderEntries, MaxHeaders), content : Bodies]

Responses ==
    [status : {"200"}, reason : {"OK"},
     headers : SeqsUpTo(ResponseHeaderEntries, MaxHeaders), content : Bodies]

PlainRequest ==
    [method |-> "GET", url |-> "http://h/", headers |-> <<>>, content |-> <<>>]

PlainResponse ==
    [status |-> "200", reason |-> "OK", headers |-> <<>>, content |-> <<>>]

\* The flows of the model: either side may be missing, and of a flow with both
\* sides at most one is other than the plain message.
Flows ==
    { f \in [request : Requests \cup {NoMessage},
             response : Responses \cup {NoMessage}] :
        f.request \in {NoMessage, PlainRequest}
        \/ f.response \in {NoMessage, PlainResponse} }

\* str.lower() on the header names of the model.
Lower(name) ==
    CASE name = "Content-Length" -> "content-length"
      [] name = "Accept-Encoding" -> "accept-encoding"
      [] OTHER -> name

\* Headers.get_all: the values stored under a name, compared case-insensitively.
RECURSIVE HeadersGetAll(_, _)
HeadersGetAll(headers, key) ==
    IF headers = <<>> THEN <<>>
    ELSE (IF Lower(Head(headers)[1]) = Lower(key)
          THEN <<Head(headers)[2]>> ELSE <<>>)
         \o HeadersGetAll(Tail(headers), key)

RECURSIVE JoinValues(_)
JoinValues(values) ==
    IF Len(values) = 1 THEN values[1]
    ELSE values[1] \o <<",", " ">> \o JoinValues(Tail(values))

NoValue == <<"None">>

\* Headers.get(key, None): all values under the name folded with ", ".
HeadersGet(headers, key) ==
    LET values == HeadersGetAll(headers, key)
    IN  IF values = <<>> THEN NoValue ELSE JoinValues(values)

\* Headers.pop(key[, None]): every entry stored under the name is deleted.
RECURSIVE HeadersPop(_, _)
HeadersPop(headers, key) ==
    IF headers = <<>> THEN <<>>
    ELSE (IF Lower(Head(headers)[1]) = Lower(key)
          THEN <<>> ELSE <<Head(headers)>>)
         \o HeadersPop(Tail(headers), key)

\* Headers.items(multi=True): every entry, in order, duplicates included.
HeadersItems(headers) == headers

(***************************************************************************)
(* The heap of one formatter run.  The flow's own messages live in the     *)
(* slots "request" and "response"; a copy lives in a slot of its own.      *)
(***************************************************************************)
HeapOf(f) ==
    [request |-> f.request, response |-> f.response,
     request_copy |-> NoMessage, response_copy |-> NoMessage]

FlowOf(h) == [request |-> h.request, response |-> h.response]

CopiesOf(h) == [request |-> h.request_copy, response |-> h.response_copy]

NoCopies == [request |-> NoMessage, response |-> NoMessage]

CopySlot(slot) == IF slot = "request" THEN "request_copy" ELSE "response_copy"

\* Message.copy() returning the very object it was asked to copy.
MessageCopyAliased(h, slot) == [heap |-> h, ref |-> slot]

\* Message.copy(): a new object with the same state.
MessageCopy(h, slot) ==
    [heap |-> [h EXCEPT ![CopySlot(slot)] = h[slot]], ref |-> CopySlot(slot)]

\* Message.decode(strict=False): the lenient decode pass.  It reverses a
\* transport encoding of the body and raises on none; the messages of the
\* model carry no Content-Encoding, so their body passes through as it is,
\* and the header entries keep their order and duplicates.
MessageDecode(h, ref) == [h EXCEPT ![ref].content = @]

Ok(val, h) == [ok |-> TRUE, val |-> val, err |-> "", heap |-> h]
Raise(msg, h) == [ok |-> FALSE, val |-> <<>>, err |-> msg, heap |-> h]

ERR_NO_REQUEST == "Can't export flow with no request."
ERR_NO_RESPONSE == "Can't export flow with no response."
ERR_NO_CONTENT == "Can't export flow with no request or response."
ERR_NO_FORMAT(fmt) == "No such export format: " \o fmt


(***************************************************************************)
(* Message clean-up.  A result is [ok, val, err, heap]: val is the slot of *)
(* the sanitized message (or a formatter's output), err the message of the *)
(* CommandError raised, heap the objects as the run left them.             *)
(***************************************************************************)
\* Lines 20-21 without the test of the method.
PopContentLength_any_method(method, headers) ==
    IF HeadersGet(headers, "content-length") = <<"0">>
    THEN HeadersPop(headers, "content-length")
    ELSE headers

\* Lines 20-21 on the headers of a request with the given method.
PopContentLength(method, headers) ==
    IF method = "GET" /\ HeadersGet(headers, "content-length") = <<"0">>
    THEN HeadersPop(headers, "content-length")
    ELSE headers

\* Lines 18-21 on the request object in slot c.ref of c.heap, without line 22.
CleanRequestAt_keep_authority(c) ==
    Ok(c.ref,
       [MessageDecode(c.heap, c.ref) EXCEPT
          ![c.ref].headers = PopContentLength(c.heap[c.ref].method, @)])

\* Lines 18-23 on the request object in slot c.ref of c.heap.
CleanRequestAt(c) ==
    Ok(c.ref,
       [MessageDecode(c.heap, c.ref) EXCEPT
          ![c.ref].headers =
              HeadersPop(PopContentLength(c.heap[c.ref].method, @), ":authority")])

\* cleanup_request working on f.request itself instead of a copy of it.
cleanup_request_inplace(h) ==
    IF h.request = NoMessage THEN Raise(ERR_NO_REQUEST, h)
    ELSE CleanRequestAt(MessageCopyAliased(h, "request"))

cleanup_request(h) ==
    IF h.request = NoMessage THEN Raise(ERR_NO_REQUEST, h)
    ELSE CleanRequestAt(MessageCopy(h, "request"))

\* Line 30 on the response object in slot c.ref of c.heap.
CleanResponseAt(c) == Ok(c.ref, MessageDecode(c.heap, c.ref))

cleanup_response(h) ==
    IF h.response = NoMessage THEN Raise(ERR_NO_RESPONSE, h)
    ELSE CleanResponseAt(MessageCopy(h, "response"))

(***************************************************************************)
(* Escaping and wire assembly.                                             *)
(***************************************************************************)
\* One byte of strutils.bytes_to_escaped_str(data, escape_single_quotes=True):
\* the repr() of the byte inside a single-quoted bytes literal.
EscapeByte(b) ==
    CASE b = QUOTE -> <<BACKSLASH, QUOTE>>
      [] b = BACKSLASH -> <<BACKSLASH, BACKSLASH>>
      [] b = BYTE_FF -> <<BACKSLASH, "x", "f", "f">>
      [] OTHER -> <<b>>

bytes_to_escaped_str(data) ==
    Flatten([i \in DOMAIN data |-> EscapeByte(data[i])])

\* bytes(headers): every entry as "Name: value" CRLF, in order.
AssembleHeaders(headers) ==
    Flatten([i \in DOMAIN headers |->
                <<headers[i][1], ":", " ">> \o headers[i][2] \o <<CRLF>>])

\* assemble.assemble_request: request line, headers, blank line, body.
assemble_request(request) ==
    <<request.method, " ", request.url, " ", "HTTP/1.1", CRLF>>
    \o AssembleHeaders(request.headers) \o <<CRLF>> \o request.content

\* assemble.assemble_response: status line, headers, blank line, body.
assemble_response(response) ==
    <<"HTTP/1.1", " ", response.status, " ", response.reason, CRLF>>
    \o AssembleHeaders(response.headers) \o <<CRLF>> \o response.content

Str(data) == [kind |-> "str", data |-> data]
Bytes(data) == [kind |-> "bytes", data |-> data]
NoOutput == [kind |-> "none", data |-> <<>>]

(***************************************************************************)
(* The formatters.                                                         *)
(***************************************************************************)
\* One turn of curl_command's loop over the headers (lines 38-39).
CurlHeader(k, val) ==
    (IF k = "accept-encoding" THEN <<"--compressed ">> ELSE <<>>)
    \o <<"-H ", QUOTE, k, ":">> \o val \o <<QUOTE, " ">>

\* Lines 35-48 on the sanitized request.
CurlText(request) ==
    <<"curl ">>
    \o Flatten([i \in DOMAIN HeadersItems(request.headers) |->
                   CurlHeader(request.headers[i][1], request.headers[i][2])])
    \o (IF request.method # "GET" THEN <<"-X ", request.method, " ">> ELSE <<>>)
    \o <<QUOTE, request.url, QUOTE>>
    \o (IF request.content # <<>>
        THEN <<" --data-binary ", QUOTE>>
             \o bytes_to_escaped_str(request.content) \o <<QUOTE>>
        ELSE <<>>)

\* Lines 53-61 on the sanitized request.
HttpieText(request) ==
    <<"http ", request.method, " ", request.url>>
    \o Flatten([i \in DOMAIN HeadersItems(request.headers) |->
                   <<" ", QUOTE, request.headers[i][1], ":">>
                   \o request.headers[i][2] \o <<QUOTE>>])
    \o (IF request.content # <<>>
        THEN <<" <<< ", QUOTE>>
             \o bytes_to_escaped_str(request.content) \o <<QUOTE>>
        ELSE <<>>)

\* A formatter's result from the result of the clean-up: the error of the
\* clean-up, or the output made of the sanitized message.
CurlOf(res) ==
    IF ~res.ok THEN res ELSE Ok(Str(CurlText(res.heap[res.val])), res.heap)

HttpieOf(res) ==
    IF ~res.ok THEN res ELSE Ok(Str(HttpieText(res.heap[res.val])), res.heap)

RawRequestOf(res) ==
    IF ~res.ok THEN res
    ELSE Ok(Bytes(assemble_request(res.heap[res.val])), res.heap)

RawResponseOf(res) ==
    IF ~res.ok THEN res
    ELSE Ok(Bytes(assemble_response(res.heap[res.val])), res.heap)

curl_command(h) == CurlOf(cleanup_request(h))

httpie_command(h) == HttpieOf(cleanup_request(h))

raw_request(h) == RawRequestOf(cleanup_request(h))

raw_response(h) == RawResponseOf(cleanup_response(h))

separator == <<CRLF, CRLF>>

\* b"".join([a, sep, b]) of line 81, b made after a on the heap a left.
JoinSides(a, sep, b) ==
    IF ~a.ok THEN a
    ELSE IF ~b.ok THEN b
    ELSE Ok(Bytes(a.val.data \o sep \o b.val.data), b.heap)

RawBoth(a, sep) == JoinSides(a, sep, raw_response(a.heap))

\* raw joining the two sides with nothing between them.
raw_no_separator(h) ==
    IF ~(h.request # NoMessage \/ h.response # NoMessage)
    THEN Raise(ERR_NO_CONTENT, h)
    ELSE IF h.request # NoMessage /\ h.response # NoMessage
    THEN RawBoth(raw_request(h), <<>>)
    ELSE IF ~(h.request # NoMessage) THEN raw_response(h)
    ELSE raw_request(h)

raw(h) ==
    IF ~(h.request # NoMessage \/ h.response # NoMessage)
    THEN Raise(ERR_NO_CONTENT, h)
    ELSE IF h.request # NoMessage /\ h.response # NoMessage
    THEN RawBoth(raw_request(h), separator)
    ELSE IF ~(h.request # NoMessage) THEN raw_response(h)
    ELSE raw_request(h)

\* The keys of the table `formats`, in the order the dict literal gives them.
formats == <<"curl", "httpie", "raw", "raw_request", "raw_response">>

FormatKeys == {formats[i] : i \in DOMAIN formats}

\* formats[fmt](f)
CallFormat(fmt, h) ==
    CASE fmt = "curl" -> curl_command(h)
      [] fmt = "httpie" -> httpie_command(h)
      [] fmt = "raw" -> raw(h)
      [] fmt = "raw_request" -> raw_request(h)
      [] fmt = "raw_response" -> raw_response(h)

\* The format names a caller may pass: the five of the table and one outside it.
FormatNames == FormatKeys \cup {"har"}

(***************************************************************************)
(* sorted() on the format names: str comparison is by code point.          *)
(***************************************************************************)
CodePoints(name) ==
    CASE name = "curl" -> <<99, 117, 114, 108>>
      [] name = "httpie" -> <<104, 116, 116, 112, 105, 101>>
      [] name = "raw" -> <<114, 97, 119>>
      [] name = "raw_request" ->
            <<114, 97, 119, 95, 114, 101, 113, 117, 101, 115, 116>>
      [] name = "raw_response" ->
            <<114, 97, 119, 95, 114, 101, 115, 112, 111, 110, 115, 101>>

RECURSIVE CodesLess(_, _)
CodesLess(a, b) ==
    IF b = <<>> THEN FALSE
    ELSE IF a = <<>> THEN TRUE
    ELSE IF Head(a) # Head(b) THEN Head(a) < Head(b)
    ELSE CodesLess(Tail(a), Tail(b))

StrLess(a, b) == CodesLess(CodePoints(a), CodePoints(b))

RECURSIVE InsertSorted(_, _)
InsertSorted(x, s) ==
    IF s = <<>> THEN <<x>>
    ELSE IF StrLess(x, Head(s)) THEN <<x>> \o s
    ELSE <<Head(s)>> \o InsertSorted(x, Tail(s))

RECURSIVE sorted(_)
sorted(s) == IF s = <<>> THEN <<>> ELSE InsertSorted(Head(s), sorted(Tail(s)))

(***************************************************************************)
(* Conversions between str and bytes.                                      *)
(***************************************************************************)
\* str.encode("utf-8"): the texts of the model are ASCII, one byte a character.
Utf8Encode(text) == [i \in DOMAIN text |-> text[i]]

\* One byte in the text always_str makes of bytes: a byte that is no text in
\* UTF-8 is written as its escape, and the backslash is doubled so that the
\* escapes can be told from the bytes that look like them.
SafeChar(b) ==
    CASE b = BYTE_FF -> <<BACKSLASH, "x", "f", "f">>
      [] b = BACKSLASH -> <<BACKSLASH, BACKSLASH>>
      [] OTHER -> <<b>>

\* strutils.always_str(x): a str as it is, bytes rendered to text without
\* loss and without failing.
always_str(x) ==
    IF x.kind = "str" THEN x
    ELSE Str(Flatten([i \in DOMAIN x.data |-> SafeChar(x.data[i])]))

\* The length in bytes of an item of data, and of data.
AtomLen(a) == IF a = BYTE_FF THEN 1 ELSE Len(a)

RECURSIVE ByteLen(_)
ByteLen(data) == IF data = <<>> THEN 0 ELSE AtomLen(Head(data)) + ByteLen(Tail(data))

\* The first n bytes of data; the cut may fall inside an item.
RECURSIVE BytePrefix(_, _)
BytePrefix(data, n) ==
    IF n = 0 \/ data = <<>> THEN <<>>
    ELSE IF AtomLen(Head(data)) <= n
         THEN <<Head(data)>> \o BytePrefix(Tail(data), n - AtomLen(Head(data)))
         ELSE <<SubSeq(Head(data), 1, n)>>

(***************************************************************************)
(* The sinks.  The disk holds, before the first command, one path that     *)
(* does not exist and one that holds older data; a third path has an       *)
(* embedded NUL, which open() refuses with ValueError before it reaches    *)
(* the file system.  The clipboard is empty or holds an older text.  Both  *)
(* keep what a command left in them.  The file system takes a fixed number *)
(* of bytes for one file (a file-size limit, a quota, the free space): the *)
(* bytes of a longer write reach the file up to that number, and the write *)
(* fails.                                                                  *)
(***************************************************************************)
NoFile == [exists |-> FALSE, data |-> <<>>]
OldFile == [exists |-> TRUE, data |-> <<"o">>]
Truncated == [exists |-> TRUE, data |-> <<>>]
NUL_PATH == "new\\0.txt"
DiskPaths == {"new.txt", "old.txt"}
Paths == DiskPaths \cup {NUL_PATH}
InitialDisk == [p \in DiskPaths |-> IF p = "new.txt" THEN NoFile ELSE OldFile]

NoClip == [set |-> FALSE, text |-> <<>>]
OldClip == [set |-> TRUE, text |-> <<"o">>]
ClipStates == {NoClip, OldClip}

\* The bytes a formatter's result takes in a file; none when it raised.
OutputLen(res) ==
    IF res.ok
    THEN ByteLen(IF res.val.kind = "bytes" THEN res.val.data ELSE Utf8Encode(res.val.data))
    ELSE 0

MaxOf(S) == IF S = {} THEN 0 ELSE CHOOSE y \in S : \A z \in S : z <= y

\* The longest export of a flow: with that much room no write of it fails.
LongestOutput(f) == MaxOf({OutputLen(CallFormat(fmt, HeapOf(f))) : fmt \in FormatKeys})

\* The flows with which every amount of room is tried: the plain messages,
\* present or missing.  With every other flow the room is none at all, the
\* five bytes of a small limit, or enough for every export.
SinkFlows ==
    {f \in Flows : /\ f.request \in {NoMessage, PlainRequest}
                   /\ f.response \in {NoMessage, PlainResponse}}

Rooms(f) ==
    IF f \in SinkFlows
    THEN 0..LongestOutput(f)
    ELSE {0, 5, LongestOutput(f)}

NoOutcome == [kind |-> "none", exc |-> "", msg |-> ""]
Running == [kind |-> "running", exc |-> "", msg |-> ""]
Returned == [kind |-> "returned", exc |-> "", msg |-> ""]
Raised(exc, msg) == [kind |-> "raised", exc |-> exc, msg |-> msg]

Init ==
    /\ flow \in Flows
    /\ flow0 = flow
    /\ pc = "idle"
    /\ call = [op |-> "none", fmt |-> "", path |-> ""]
    /\ ncalls = 0
    /\ v = NoOutput
    /\ sanitized = NoCopies
    /\ fp = "closed"
    /\ opens = 0
    /\ sinkCalls = 0
    /\ disk = InitialDisk
    /\ disk0 = disk
    /\ room \in Rooms(flow)
    /\ clipboard \in ClipStates
    /\ clipboard0 = clipboard
    /\ pending = "none"
    /\ sinkFailed = FALSE
    /\ logged = <<>>
    /\ outcome = NoOutcome
    /\ ret = <<>>

\* A command starts: what it is, and the sinks as it finds them.
Started(op, fmt, path) ==
    /\ pc = "idle"
    /\ ncalls < MaxCalls
    /\ ncalls' = ncalls + 1
    /\ call' = [op |-> op, fmt |-> fmt, path |-> path]
    /\ disk0' = disk
    /\ clipboard0' = clipboard
    /\ opens' = 0
    /\ sinkCalls' = 0
    /\ pending' = "none"
    /\ sinkFailed' = FALSE
    /\ logged' = <<>>
    /\ UNCHANGED <<flow0, fp, room>>

(***************************************************************************)
(* export.formats                                                          *)
(***************************************************************************)
Export_formats ==
    /\ Started("formats", "", "")
    /\ ret' = sorted(formats)
    /\ outcome' = Returned
    /\ pc' = "idle"
    /\ UNCHANGED <<flow, v, sanitized, disk, clipboard>>

(***************************************************************************)
(* export.file                                                             *)
(***************************************************************************)
\* Line 113: what the formatter's run leaves behind.
File_formatted(res) ==
    /\ flow' = FlowOf(res.heap)
    /\ sanitized' = CopiesOf(res.heap)
    /\ IF res.ok
       THEN /\ v' = res.val
            /\ outcome' = Running
            /\ pc' = "file_open"
       ELSE /\ v' = NoOutput
            /\ outcome' = Raised("CommandError", res.err)
            /\ pc' = "idle"

\* export.file opening the destination before it runs the formatter.
Export_file_opens_first(fmt, path) ==
    /\ Started("file", fmt, path)
    /\ disk' = IF fmt \in FormatKeys /\ path \in DiskPaths
               THEN [disk EXCEPT ![path] = Truncated]
               ELSE disk
    /\ ret' = <<>>
    /\ IF fmt \notin FormatKeys
       THEN /\ outcome' = Raised("CommandError", ERR_NO_FORMAT(fmt))
            /\ v' = NoOutput
            /\ pc' = "idle"
            /\ flow' = flow
            /\ sanitized' = NoCopies
       ELSE File_formatted(CallFormat(fmt, HeapOf(flow)))
    /\ UNCHANGED clipboard

\* Lines 110-113: the look-up of the format and the formatter's run.
Export_file(fmt, path) ==
    /\ Started("file", fmt, path)
    /\ ret' = <<>>
    /\ IF fmt \notin FormatKeys
       THEN /\ outcome' = Raised("CommandError", ERR_NO_FORMAT(fmt))
            /\ v' = NoOutput
            /\ pc' = "idle"
            /\ flow' = flow
            /\ sanitized' = NoCopies
       ELSE File_formatted(CallFormat(fmt, HeapOf(flow)))
    /\ UNCHANGED <<disk, clipboard>>

\* Line 115: open(path, "wb") creates or truncates the destination.
File_open_ok ==
    /\ pc = "file_open"
    /\ call.path \in DiskPaths
    /\ fp' = "open"
    /\ opens' = opens + 1
    /\ sinkCalls' = sinkCalls + 1
    /\ disk' = [disk EXCEPT ![call.path] = Truncated]
    /\ pc' = "file_write"
    /\ UNCHANGED <<flow, flow0, room, call, ncalls, v, sanitized, disk0, clipboard, clipboard0,
                   pending, sinkFailed, logged, outcome, ret>>

\* Lines 115, 120-121: open() raises IOError; it is logged and the call returns.
File_open_fails ==
    /\ pc = "file_open"
    /\ call.path \in DiskPaths
    /\ sinkCalls' = sinkCalls + 1
    /\ sinkFailed' = TRUE
    /\ logged' = Append(logged, "IOError")
    /\ outcome' = Returned
    /\ pc' = "idle"
    /\ UNCHANGED <<flow, flow0, room, call, ncalls, v, sanitized, fp, opens, disk, disk0,
                   clipboard, clipboard0, pending, ret>>

\* Lines 115, 120: open() refuses a path with an embedded NUL with ValueError,
\* which "except IOError" does not catch: it leaves export.file unlogged.
File_open_raises ==
    /\ pc = "file_open"
    /\ call.path = NUL_PATH
    /\ sinkCalls' = sinkCalls + 1
    /\ sinkFailed' = TRUE
    /\ outcome' = Raised("ValueError", "embedded null byte")
    /\ pc' = "idle"
    /\ UNCHANGED <<flow, flow0, room, call, ncalls, v, sanitized, fp, opens, disk, disk0,
                   clipboard, clipboard0, pending, logged, ret>>

\* Lines 116-119: what is written, the bytes as they are, a str encoded as UTF-8.
WrittenData == IF v.kind = "bytes" THEN v.data ELSE Utf8Encode(v.data)

\* Lines 116-119: the whole data reaches the file.
File_write_ok ==
    /\ pc = "file_write"
    /\ ByteLen(WrittenData) <= room
    /\ disk' = [disk EXCEPT ![call.path] = [exists |-> TRUE, data |-> WrittenData]]
    /\ pc' = "file_exit"
    /\ UNCHANGED <<flow, flow0, room, call, ncalls, v, sanitized, fp, opens, sinkCalls, disk0,
                   clipboard, clipboard0, pending, sinkFailed, logged, outcome, ret>>

\* Lines 115-119: the write, or the flush of the buffer when the with-block
\* closes the handle, raises IOError (file too large, disk full) once the
\* bytes the file system had room for reached the file.
File_write_fails ==
    /\ pc = "file_write"
    /\ ByteLen(WrittenData) > room
    /\ disk' = [disk EXCEPT ![call.path] =
                   [exists |-> TRUE, data |-> BytePrefix(WrittenData, room)]]
    /\ pending' = "IOError"
    /\ sinkFailed' = TRUE
    /\ pc' = "file_exit"
    /\ UNCHANGED <<flow, flow0, room, call, ncalls, v, sanitized, fp, opens, sinkCalls, disk0,
                   clipboard, clipboard0, logged, outcome, ret>>

\* The with-block left without closing the handle when the write raised.
File_exit_leak ==
    /\ pc = "file_exit"
    /\ fp' = IF pending = "IOError" THEN fp ELSE "closed"
    /\ logged' = IF pending = "IOError" THEN Append(logged, "IOError") ELSE logged
    /\ pending' = "none"
    /\ outcome' = Returned
    /\ pc' = "idle"
    /\ UNCHANGED <<flow, flow0, room, call, ncalls, v, sanitized, opens, sinkCalls, disk, disk0,
                   clipboard, clipboard0, sinkFailed, ret>>

\* Lines 115, 120-121: the with-block closes the handle on the way out, with
\* or without an exception; an IOError is then logged and the call returns.
File_exit ==
    /\ pc = "file_exit"
    /\ fp' = "closed"
    /\ logged' = IF pending = "IOError" THEN Append(logged, "IOError") ELSE logged
    /\ pending' = "none"
    /\ outcome' = Returned
    /\ pc' = "idle"
    /\ UNCHANGED <<flow, flow0, room, call, ncalls, v, sanitized, opens, sinkCalls, disk, disk0,
                   clipboard, clipboard0, sinkFailed, ret>>

(***************************************************************************)
(* export.clip                                                             *)
(***************************************************************************)
\* export.clip handing the formatter's result to the clipboard as it is.
Clip_formatted_unconverted(res) ==
    /\ flow' = FlowOf(res.heap)
    /\ sanitized' = CopiesOf(res.heap)
    /\ IF ~res.ok
       THEN /\ v' = NoOutput
            /\ outcome' = Raised("CommandError", res.err)
            /\ pc' = "idle"
       ELSE /\ v' = res.val
            /\ outcome' = Running
            /\ pc' = "clip_copy"

\* Line 131: v = strutils.always_str(func(f)).
Clip_formatted(res) ==
    /\ flow' = FlowOf(res.heap)
    /\ sanitized' = CopiesOf(res.heap)
    /\ IF ~res.ok
       THEN /\ v' = NoOutput
            /\ outcome' = Raised("CommandError", res.err)
            /\ pc' = "idle"
       ELSE /\ v' = always_str(res.val)
            /\ outcome' = Running
            /\ pc' = "clip_copy"

\* Lines 128-131: the look-up, the formatter's run and always_str.
Export_clip(fmt) ==
    /\ Started("clip", fmt, "")
    /\ ret' = <<>>
    /\ IF fmt \notin FormatKeys
       THEN /\ outcome' = Raised("CommandError", ERR_NO_FORMAT(fmt))
            /\ v' = NoOutput
            /\ pc' = "idle"
            /\ flow' = flow
            /\ sanitized' = NoCopies
       ELSE Clip_formatted(CallFormat(fmt, HeapOf(flow)))
    /\ UNCHANGED <<disk, clipboard>>

\* Line 133: pyperclip.copy(v) puts the text on the clipboard.
Clip_copy_ok ==
    /\ pc = "clip_copy"
    /\ sinkCalls' = sinkCalls + 1
    /\ clipboard' = [set |-> TRUE, text |-> v.data]
    /\ outcome' = Returned
    /\ pc' = "idle"
    /\ UNCHANGED <<flow, flow0, room, call, ncalls, v, sanitized, fp, opens, disk, disk0,
                   clipboard0, pending, sinkFailed, logged, ret>>

\* Lines 133-135: pyperclip.copy raises PyperclipException; it is logged.
Clip_copy_fails ==
    /\ pc = "clip_copy"
    /\ sinkCalls' = sinkCalls + 1
    /\ sinkFailed' = TRUE
    /\ logged' = Append(logged, "PyperclipException")
    /\ outcome' = Returned
    /\ pc' = "idle"
    /\ UNCHANGED <<flow, flow0, room, call, ncalls, v, sanitized, fp, opens, disk, disk0,
                   clipboard, clipboard0, pending, ret>>

Next ==
    \/ Export_formats
    \/ \E fmt \in FormatNames, path \in Paths : Export_file(fmt, path)
    \/ File_open_ok
    \/ File_open_fails
    \/ File_open_raises
    \/ File_write_ok
    \/ File_write_fails
    \/ File_exit
    \/ \E fmt \in FormatNames : Export_clip(fmt)
    \/ Clip_copy_ok
    \/ Clip_copy_fails

Spec == Init /\ [][Next]_vars

(***************************************************************************)
(* What the properties below speak of.                                     *)
(***************************************************************************)
TheFiveFormats == {"curl", "httpie", "raw", "raw_request", "raw_response"}

ExportRan == call.op \in {"file", "clip"}

\* The message the format needs is missing on the flow.
MissingMessage(fmt, f) ==
    \/ fmt \in {"curl", "httpie", "raw_request"} /\ f.request = NoMessage
    \/ fmt = "raw_response" /\ f.response = NoMessage
    \/ fmt = "raw" /\ f.request = NoMessage /\ f.response = NoMessage

MissingMessageError(fmt) ==
    CASE fmt \in {"curl", "httpie", "raw_request"} -> ERR_NO_REQUEST
      [] fmt = "raw_response" -> ERR_NO_RESPONSE
      [] fmt = "raw" -> ERR_NO_CONTENT

\* The entries of a header collection under a name, in order.
RECURSIVE EntriesNamed(_, _)
EntriesNamed(headers, lname) ==
    IF headers = <<>> THEN <<>>
    ELSE (IF Lower(Head(headers)[1]) = lname THEN <<Head(headers)>> ELSE <<>>)
         \o EntriesNamed(Tail(headers), lname)

\* The sinks are as the command found them and were never called.
SinksUntouched ==
    /\ disk = disk0
    /\ clipboard = clipboard0
    /\ fp = "closed"
    /\ opens = 0
    /\ sinkCalls = 0
    /\ logged = <<>>

\* The single quotes of a text that no backslash precedes.
UnescapedQuotes(text) ==
    Cardinality({i \in DOMAIN text :
                    text[i] = QUOTE /\ (i = 1 \/ text[i - 1] # BACKSLASH)})

(***************************************************************************)
(* C1.  The combined raw export of a flow with both sides is exactly       *)
(* raw_request(flow), the four bytes CR LF CR LF, raw_response(flow); with *)
(* one side only it is that side's export; with neither it fails with the  *)
(* no-content error and yields no bytes.                                   *)
(***************************************************************************)
C1_RawComposition ==
    (call.op = "file" /\ call.fmt = "raw") =>
        IF flow0.request # NoMessage /\ flow0.response # NoMessage
        THEN v = Bytes(raw_request(HeapOf(flow0)).val.data
                       \o <<"\r\n", "\r\n">>
                       \o raw_response(HeapOf(flow0)).val.data)
        ELSE IF flow0.request # NoMessage
        THEN v = raw_request(HeapOf(flow0)).val
        ELSE IF flow0.response # NoMessage
        THEN v = raw_response(HeapOf(flow0)).val
        ELSE /\ v = NoOutput
             /\ outcome = Raised("CommandError", ERR_NO_CONTENT)
             /\ disk = disk0

C1_Witness ==
    /\ call.op = "file" /\ call.fmt = "raw"
    /\ flow0.request # NoMessage /\ flow0.response # NoMessage
    /\ flow0.response.content # <<>>
    /\ pc = "idle" /\ outcome = Returned /\ ~sinkFailed
    /\ call.path = "new.txt" /\ disk["new.txt"].data = v.data

(***************************************************************************)
(* C2.  In export.file and export.clip a format name outside the five      *)
(* raises the unknown-format error whatever the flow holds, and a missing   *)
(* message raises the formatter's error; in both cases the call is over,    *)
(* the destination was never opened, created or truncated and the           *)
(* clipboard never written.                                                 *)
(***************************************************************************)
C2_ErrorsAbortBeforeSink ==
    /\ (ExportRan /\ call.fmt \notin TheFiveFormats) =>
          /\ pc = "idle"
          /\ outcome = Raised("CommandError", ERR_NO_FORMAT(call.fmt))
          /\ SinksUntouched
    /\ (ExportRan /\ call.fmt \in TheFiveFormats
          /\ MissingMessage(call.fmt, flow0)) =>
          /\ pc = "idle"
          /\ outcome = Raised("CommandError", MissingMessageError(call.fmt))
          /\ SinksUntouched
    /\ (outcome.kind = "raised" /\ outcome.exc = "CommandError") => SinksUntouched

C2_Witness ==
    /\ call.op = "file" /\ call.fmt = "har" /\ call.path = "new.txt"
    /\ flow0.request # NoMessage /\ flow0.response = NoMessage
    /\ outcome = Raised("CommandError", "No such export format: har")
    /\ disk0["new.txt"].data # <<>> /\ disk = disk0

(***************************************************************************)
(* C3.  A failure of the sink (open, write, clipboard backend) happens     *)
(* only after a successful formatting, never reaches the caller as an       *)
(* exception, is logged exactly once, is not retried, and leaves            *)
(* export.formats returning the five names in sorted order.                 *)
(***************************************************************************)
C3_SinkFailureContained ==
    /\ sinkFailed => (ExportRan /\ call.fmt \in TheFiveFormats /\ v.kind # "none")
    /\ sinkCalls <= 1
    /\ outcome.kind = "raised" => ~sinkFailed
    /\ (sinkFailed /\ pc = "idle") =>
          (outcome = Returned /\ Len(logged) = 1 /\ sinkCalls = 1)
    /\ ret # <<>> => ret = <<"curl", "httpie", "raw", "raw_request", "raw_response">>

\* The bytes a text made by always_str stands for.
RECURSIVE TextToBytes(_)
TextToBytes(text) ==
    IF text = <<>> THEN <<>>
    ELSE IF Head(text) = BACKSLASH /\ Len(text) >= 4 /\ SubSeq(text, 2, 4) = <<"x", "f", "f">>
         THEN <<BYTE_FF>> \o TextToBytes(SubSeq(text, 5, Len(text)))
    ELSE IF Head(text) = BACKSLASH /\ Len(text) >= 2 /\ text[2] = BACKSLASH
         THEN <<BACKSLASH>> \o TextToBytes(SubSeq(text, 3, Len(text)))
    ELSE <<Head(text)>> \o TextToBytes(Tail(text))

C5_NoAuthorityAnywhere ==
    /\ sanitized.request # NoMessage =>
          EntriesNamed(sanitized.request.headers, ":authority") = <<>>
    /\ sanitized.response # NoMessage =>
          EntriesNamed(sanitized.response.headers, ":authority") = <<>>
    /\ CountAtom(v.data, ":authority") = 0

(***************************************************************************)
(* C5, amended.  The sanitized request holds no entry named ':authority',  *)
(* so curl, httpie and raw_request never emit one; the sanitized response   *)
(* keeps every ':authority' entry of its source, and raw_response, and raw  *)
(* in its response part, emit each of them and no other.                    *)
(***************************************************************************)
C5_NoAuthorityInRequest ==
    /\ sanitized.request # NoMessage =>
          EntriesNamed(sanitized.request.headers, ":authority") = <<>>
    /\ call.fmt \in {"curl", "httpie", "raw_request"} =>
          CountAtom(v.data, ":authority") = 0
    /\ sanitized.response # NoMessage =>
          EntriesNamed(sanitized.response.headers, ":authority")
             = EntriesNamed(flow0.response.headers, ":authority")
    /\ (call.fmt = "raw_response" /\ v.kind # "none") =>
          CountAtom(v.data, ":authority")
             = Len(EntriesNamed(flow0.response.headers, ":authority"))
    /\ (call.fmt = "raw" /\ v.kind # "none") =>
          CountAtom(v.data, ":authority")
             = IF flow0.response = NoMessage THEN 0
               ELSE Len(EntriesNamed(flow0.response.headers, ":authority"))

C5_Witness ==
    /\ call.fmt = "curl" /\ v.kind = "str"
    /\ EntriesNamed(flow0.request.headers, ":authority") # <<>>
    /\ Len(flow0.request.headers) = 2
    /\ sanitized.request # NoMessage

C7_CompressedAnyCase ==
    (call.fmt = "curl" /\ v.kind = "str") =>
        LET hs  == sanitized.request.headers
            exp == <<"curl ">>
                   \o Flatten([i \in DOMAIN hs |->
                         (IF Lower(hs[i][1]) = "accept-encoding"
                          THEN <<"--compressed ">> ELSE <<>>)
                         \o <<"-H ", "'", hs[i][1], ":">> \o hs[i][2]
                         \o <<"'", " ">>])
        IN  /\ Len(v.data) >= Len(exp)
            /\ SubSeq(v.data, 1, Len(exp)) = exp

(***************************************************************************)
(* C8.  In the curl export every single-quoted literal (one per header,    *)
(* the URL, the body) is closed by its own closing quote only: the text     *)
(* holds no single quote besides the delimiters, unless a backslash         *)
(* precedes it.                                                             *)
(***************************************************************************)
C8_QuotesNeverBare ==
    (call.fmt = "curl" /\ v.kind = "str") =>
        UnescapedQuotes(v.data)
           = 2 * (Len(sanitized.request.headers) + 1
                  + (IF sanitized.request.content # <<>> THEN 1 ELSE 0))

(***************************************************************************)
(* C9.  Whatever commands ran and however they ended, the flow passed in   *)
(* is as it was captured: method, URL, header entries and body of both      *)
(* sides.                                                                   *)
(***************************************************************************)
C9_FlowUnchanged == flow = flow0

C9_Witness ==
    /\ pc = "idle" /\ outcome = Returned /\ call.fmt = "httpie"
    /\ EntriesNamed(flow0.request.headers, ":authority") # <<>>
    /\ EntriesNamed(flow0.request.headers, "content-length") # <<>>
    /\ sanitized.request.headers = <<>>
    /\ flow.request.headers = flow0.request.headers

(***************************************************************************)
(* C10.  export.file holds a file handle only between the successful open  *)
(* and the end of the with-block, acquires it only after look-up and        *)
(* formatting succeeded, at most once a call, and holds none once the call  *)
(* is over, however it ended.                                               *)
(***************************************************************************)
C10_HandleScoped ==
    /\ fp = "open" =>
          /\ call.op = "file" /\ call.fmt \in TheFiveFormats
          /\ pc \in {"file_write", "file_exit"}
    /\ opens > 0 => (v.kind # "none" /\ ~MissingMessage(call.fmt, flow0))
    /\ opens <= 1
    /\ pc = "idle" => fp = "closed"

C10_Witness ==
    /\ call.op = "file" /\ pc = "idle" /\ opens = 1
    /\ sinkFailed /\ logged = <<"IOError">> /\ fp = "closed"
    /\ call.path = "old.txt" /\ disk0["old.txt"] = OldFile
    /\ call.fmt = "raw_request" /\ disk["old.txt"].data = <<"GET", " ", "h">>

=============================================================================
